---- MODULE Spec2Model ----
(***************************************************************************)
(* State-machine model of the APDS9960 driver                              *)
(* (adafruit_apds9960/apds9960.py): the register plumbing, the proximity   *)
(* threshold accessors, the rotation setting and the gesture() polling     *)
(* loop.  Python buffers are 0-based; the sequences here are 1-based, so   *)
(* buf[0] is buf2[1] and buffer[1:5] is buf129[2..5].  Times are integer   *)
(* milliseconds of time.monotonic().                                       *)
(***************************************************************************)
EXTENDS Integers, Sequences, FiniteSets, TLC

\* ---------------------------------------------------------------- registers
DEVICE_ID == 171
APDS9960_ENABLE == 128
APDS9960_ATIME == 129
APDS9960_PILT == 137
APDS9960_PIHT == 139
APDS9960_PERS == 140
APDS9960_CONTROL == 143
APDS9960_ID == 146
APDS9960_CDATAL == 148
APDS9960_GPENTH == 160
APDS9960_GEXTH == 161
APDS9960_GCONF1 == 162
APDS9960_GCONF2 == 163
APDS9960_GPULSE == 166
APDS9960_GFLVL == 174
APDS9960_GSTATUS == 175
APDS9960_AICLEAR == 231
APDS9960_GFIFO_U == 252

BIT_MASK_ENABLE_EN == 1
BIT_MASK_ENABLE_COLOR == 2
BIT_MASK_ENABLE_PROX == 4
BIT_MASK_ENABLE_PROX_INT == 32
BIT_MASK_ENABLE_GESTURE == 64
BIT_MASK_GSTATUS_GVALID == 1
BIT_POSITON_PERS_PPERS == 4
BIT_MASK_PERS_PPERS == 240

\* Registers whose contents the device keeps between transactions.
StoredRegs ==
    { APDS9960_ENABLE, APDS9960_ATIME, APDS9960_PILT, APDS9960_PIHT,
      APDS9960_PERS, APDS9960_CONTROL, APDS9960_GPENTH, APDS9960_GEXTH,
      APDS9960_GCONF1, APDS9960_GCONF2, APDS9960_GPULSE }

\* The masks of the five boolean flags of the ENABLE register.
EnableFlags ==
    { BIT_MASK_ENABLE_EN, BIT_MASK_ENABLE_COLOR, BIT_MASK_ENABLE_PROX,
      BIT_MASK_ENABLE_PROX_INT, BIT_MASK_ENABLE_GESTURE }

\* Python's None where an integer is expected (a getter without a return).
PyNone == -1
\* An instance attribute that has not been assigned yet.
Unset == -2

\* ------------------------------------------------------------------- bounds
\* Gesture-valid and edge-producing records are offered during the first
\* Horizon ms after the driver was constructed.
Horizon == 90
\* Edge-producing records are offered while no counter would pass MaxCount.
MaxCount == 2

\* time.monotonic() when the driver is constructed: just after boot, or later
StartTimes == {0, 1000}

\* ------------------------------------------------------- Python int operators
RECURSIVE BitAnd(_, _)
BitAnd(a, b) ==
    IF a = 0 \/ b = 0 THEN 0
    ELSE (a % 2) * (b % 2) + 2 * BitAnd(a \div 2, b \div 2)

BitOr(a, b) == a + b - BitAnd(a, b)

\* x & ~mask for a byte x
BitClear(x, mask) == x - BitAnd(x, mask)

RECURSIVE Pow2(_)
Pow2(n) == IF n = 0 THEN 1 ELSE 2 * Pow2(n - 1)

ShiftLeft(v, n) == v * Pow2(n)
ShiftRight(v, n) == v \div Pow2(n)

Min(a, b) == IF a < b THEN a ELSE b
Abs(x) == IF x < 0 THEN -x ELSE x

\* ---------------------------------------------------------------- transport
\* A bus context m = [dev, buf2, bus, val]: the device's registers as seen
\* during one operation, the driver's 2-byte scratch buffer, the log of the
\* transactions issued so far, and the value the last primitive returned.
Tx(op, reg, n) == [op |-> op, reg |-> reg, n |-> n]

NewBus(dev, buf) == [dev |-> dev, buf2 |-> buf, bus |-> <<>>, val |-> 0]

write8(m, command, abyte) ==
    LET buf == <<command, abyte>>
    IN [m EXCEPT !.buf2 = buf,
                 !.dev = [m.dev EXCEPT ![buf[1]] = buf[2]],
                 !.bus = Append(m.bus, Tx("write", buf[1], 2))]

writecmdonly(m, command) ==
    LET buf == <<command, m.buf2[2]>>
    IN [m EXCEPT !.buf2 = buf,
                 !.bus = Append(m.bus, Tx("write", buf[1], 1))]

read8(m, command) ==
    LET got == m.dev[command]
        buf == <<got, m.buf2[2]>>
    IN [m EXCEPT !.buf2 = buf,
                 !.bus = Append(m.bus, Tx("read", command, 1)),
                 !.val = buf[1]]

get_bit(m, register, bitmask) ==
    LET buf == <<register, m.dev[register]>>
    IN [m EXCEPT !.buf2 = buf,
                 !.bus = Append(m.bus, Tx("read", register, 1)),
                 !.val = IF BitAnd(buf[2], bitmask) # 0 THEN 1 ELSE 0]

\* _set_bit storing the mask itself, without merging the byte it read
set_bit_overwrites(m, register, bitmask, value) ==
    LET rd == <<register, m.dev[register]>>
        buf == <<rd[1], IF value THEN bitmask ELSE 0>>
    IN [m EXCEPT !.buf2 = buf,
                 !.dev = [m.dev EXCEPT ![buf[1]] = buf[2]],
                 !.bus = m.bus \o <<Tx("read", register, 1),
                                    Tx("write", buf[1], 2)>>]

set_bit(m, register, bitmask, value) ==
    LET rd == <<register, m.dev[register]>>
        buf == <<rd[1], IF value THEN BitOr(rd[2], bitmask)
                                 ELSE BitClear(rd[2], bitmask)>>
    IN [m EXCEPT !.buf2 = buf,
                 !.dev = [m.dev EXCEPT ![buf[1]] = buf[2]],
                 !.bus = m.bus \o <<Tx("read", register, 1),
                                    Tx("write", buf[1], 2)>>]

get_bits(m, register, bit_position, bit_mask) ==
    LET buf == <<register, m.dev[register]>>
    IN [m EXCEPT !.buf2 = buf,
                 !.bus = Append(m.bus, Tx("read", register, 1)),
                 !.val = ShiftRight(BitAnd(buf[2], bit_mask), bit_position)]

set_bits(m, register, bit_position, bit_mask, value) ==
    LET rd == <<register, m.dev[register]>>
        buf == <<rd[1], BitOr(BitClear(rd[2], bit_mask),
                              ShiftLeft(value, bit_position))>>
    IN [m EXCEPT !.buf2 = buf,
                 !.dev = [m.dev EXCEPT ![buf[1]] = buf[2]],
                 !.bus = m.bus \o <<Tx("read", register, 1),
                                    Tx("write", buf[1], 2)>>]

\* --------------------------------------------------------------- properties
\* The getter evaluates _get_bits and drops its value: the property is None.
proximity_persistence_get(m) ==
    [get_bits(m, APDS9960_PERS, BIT_POSITON_PERS_PPERS, BIT_MASK_PERS_PPERS)
        EXCEPT !.val = PyNone]

proximity_persistence_set(m, value) ==
    set_bits(m, APDS9960_PERS, BIT_POSITON_PERS_PPERS, BIT_MASK_PERS_PPERS, value)

enable_set(m, value) == set_bit(m, APDS9960_ENABLE, BIT_MASK_ENABLE_EN, value)

enable_get(m) == get_bit(m, APDS9960_ENABLE, BIT_MASK_ENABLE_EN)

enable_gesture_get(m) == get_bit(m, APDS9960_ENABLE, BIT_MASK_ENABLE_GESTURE)

enable_gesture_set(m, value) ==
    set_bit(m, APDS9960_ENABLE, BIT_MASK_ENABLE_GESTURE, value)

enable_color_get(m) == get_bit(m, APDS9960_ENABLE, BIT_MASK_ENABLE_COLOR)

enable_color_set(m, value) ==
    set_bit(m, APDS9960_ENABLE, BIT_MASK_ENABLE_COLOR, value)

enable_proximity_get(m) == get_bit(m, APDS9960_ENABLE, BIT_MASK_ENABLE_PROX)

enable_proximity_set(m, value) ==
    set_bit(m, APDS9960_ENABLE, BIT_MASK_ENABLE_PROX, value)

enable_proximity_interrupt_get(m) ==
    get_bit(m, APDS9960_ENABLE, BIT_MASK_ENABLE_PROX_INT)

enable_proximity_interrupt_set(m, value) ==
    set_bit(m, APDS9960_ENABLE, BIT_MASK_ENABLE_PROX_INT, value)

\* The five boolean properties, named by the mask of their bit.
flag_get(m, flag) ==
    CASE flag = BIT_MASK_ENABLE_EN -> enable_get(m)
      [] flag = BIT_MASK_ENABLE_COLOR -> enable_color_get(m)
      [] flag = BIT_MASK_ENABLE_PROX -> enable_proximity_get(m)
      [] flag = BIT_MASK_ENABLE_PROX_INT -> enable_proximity_interrupt_get(m)
      [] flag = BIT_MASK_ENABLE_GESTURE -> enable_gesture_get(m)

flag_set(m, flag, value) ==
    CASE flag = BIT_MASK_ENABLE_EN -> enable_set(m, value)
      [] flag = BIT_MASK_ENABLE_COLOR -> enable_color_set(m, value)
      [] flag = BIT_MASK_ENABLE_PROX -> enable_proximity_set(m, value)
      [] flag = BIT_MASK_ENABLE_PROX_INT ->
             enable_proximity_interrupt_set(m, value)
      [] flag = BIT_MASK_ENABLE_GESTURE -> enable_gesture_set(m, value)

\* _color_data16 returning the first byte read as the high byte
color_data16_swapped(m, command) ==
    LET buf == <<m.dev[command], m.dev[command + 1]>>
    IN [m EXCEPT !.buf2 = buf,
                 !.bus = Append(m.bus, Tx("read", command, 2)),
                 !.val = BitOr(ShiftLeft(buf[1], 8), buf[2])]

\* buf[0] holds the command while it is written, then both bytes of the
\* scratch are overwritten by the two bytes read.
color_data16(m, command) ==
    LET buf == <<m.dev[command], m.dev[command + 1]>>
    IN [m EXCEPT !.buf2 = buf,
                 !.bus = Append(m.bus, Tx("read", command, 2)),
                 !.val = BitOr(ShiftLeft(buf[2], 8), buf[1])]

color_data(m) ==
    LET m1 == color_data16(m, APDS9960_CDATAL + 2)
        m2 == color_data16(m1, APDS9960_CDATAL + 4)
        m3 == color_data16(m2, APDS9960_CDATAL + 6)
        m4 == color_data16(m3, APDS9960_CDATAL)
    IN [m4 EXCEPT !.val = <<m1.val, m2.val, m3.val, m4.val>>]

\* _gesture_valid testing the overflow bit (0x02) instead of GVALID
gesture_valid_wrong_bit(m) == get_bit(m, APDS9960_GSTATUS, 2)

gesture_valid(m) == get_bit(m, APDS9960_GSTATUS, BIT_MASK_GSTATUS_GVALID)

clear_interrupt(m) == writecmdonly(m, APDS9960_AICLEAR)

\* proximity_interrupt_threshold getter: the tuple returned and the bus after
proximity_interrupt_threshold_get(m) ==
    LET m1 == read8(m, APDS9960_PILT)
        m2 == read8(m1, APDS9960_PIHT)
        m3 == proximity_persistence_get(m2)
    IN [m3 EXCEPT !.val = <<m1.val, m2.val, m3.val>>]

\* the setter without the clamp of the persistence to 7
proximity_interrupt_threshold_set_unclamped(m, setting_tuple) ==
    LET m1 == IF Len(setting_tuple) > 0
              THEN write8(m, APDS9960_PILT, setting_tuple[1]) ELSE m
        m2 == IF Len(setting_tuple) > 1
              THEN write8(m1, APDS9960_PIHT, setting_tuple[2]) ELSE m1
        persist == IF Len(setting_tuple) > 2 THEN setting_tuple[3] ELSE 4
    IN proximity_persistence_set(m2, persist)

\* proximity_interrupt_threshold setter, setting_tuple of 0 to 3 elements
proximity_interrupt_threshold_set(m, setting_tuple) ==
    LET m1 == IF Len(setting_tuple) > 0
              THEN write8(m, APDS9960_PILT, setting_tuple[1]) ELSE m
        m2 == IF Len(setting_tuple) > 1
              THEN write8(m1, APDS9960_PIHT, setting_tuple[2]) ELSE m1
        persist == IF Len(setting_tuple) > 2 THEN Min(setting_tuple[3], 7) ELSE 4
    IN proximity_persistence_set(m2, persist)

ValidRotations == {0, 90, 180, 270}

\* the rotation test accepting every multiple of 90
rotation_ok_mod90(new_rotation) == new_rotation % 90 = 0

\* rotation setter, line 293: the test that admits new_rotation
rotation_ok(new_rotation) == new_rotation \in ValidRotations

\* ---------------------------------------------------------- gesture helpers
ZeroCounts == [up |-> 0, down |-> 0, left |-> 0, right |-> 0]

\* _reset_counts that forgets one of the four counters
reset_counts_skips_right(c) ==
    [c EXCEPT !.down = 0, !.up = 0, !.left = 0]

reset_counts(c) ==
    [c EXCEPT !.down = 0, !.up = 0, !.left = 0, !.right = 0]

\* lines 341-345: a difference counts only above the noise floor of 13
noise_gate(a, b) == IF Abs(a - b) > 13 THEN a - b ELSE 0

\* classify_up_down with the test of _saw_down_start negated
classify_up_down_eager(s, up_down_diff) ==
    IF up_down_diff # 0
    THEN IF up_down_diff < 0
         THEN IF s.c.up # 0 THEN [s EXCEPT !.g = 1]
                            ELSE [s EXCEPT !.c.down = @ + 1]
         ELSE IF s.c.down = 0 THEN [s EXCEPT !.g = 2]
                              ELSE [s EXCEPT !.c.up = @ + 1]
    ELSE s

\* lines 347-361, on s = [c |-> counters, g |-> gesture_received]
classify_up_down(s, up_down_diff) ==
    IF up_down_diff # 0
    THEN IF up_down_diff < 0
         THEN IF s.c.up # 0 THEN [s EXCEPT !.g = 1]
                            ELSE [s EXCEPT !.c.down = @ + 1]
         ELSE IF s.c.down # 0 THEN [s EXCEPT !.g = 2]
                              ELSE [s EXCEPT !.c.up = @ + 1]
    ELSE s

\* The left/right branch counting every edge, never pairing it with the
\* opposite one.
classify_left_right_unpaired(s, left_right_diff) ==
    IF left_right_diff # 0
    THEN IF left_right_diff < 0
         THEN [s EXCEPT !.c.right = @ + 1]
         ELSE [s EXCEPT !.c.left = @ + 1]
    ELSE s

\* lines 363-377
classify_left_right(s, left_right_diff) ==
    IF left_right_diff # 0
    THEN IF left_right_diff < 0
         THEN IF s.c.left # 0 THEN [s EXCEPT !.g = 3]
                              ELSE [s EXCEPT !.c.right = @ + 1]
         ELSE IF s.c.right # 0 THEN [s EXCEPT !.g = 4]
                               ELSE [s EXCEPT !.c.left = @ + 1]
    ELSE s

\* lines 339-377: one record against the counters c
classify(c, rec) ==
    LET up_down_diff == noise_gate(rec[1], rec[2])
        left_right_diff == noise_gate(rec[3], rec[4])
        s == classify_left_right(
                 classify_up_down([c |-> c, g |-> 0], up_down_diff),
                 left_right_diff)
    IN [c |-> s.c, g |-> s.g, ud |-> up_down_diff, lr |-> left_right_diff]

\* An exit test whose timeout runs only once an edge has armed the timer.
finished_needs_armed_timer(gesture_received, monotonic, time_mark) ==
    gesture_received # 0 \/ (time_mark # 0 /\ monotonic - time_mark > 300)

\* line 384: the loop's exit test
finished(gesture_received, monotonic, time_mark) ==
    gesture_received # 0 \/ monotonic - time_mark > 300

\* lines 387-394
directions == <<1, 4, 2, 3>>
index_of(g) == CHOOSE i \in 1..4 : directions[i] = g
\* the remapping with the index shifted the other way
remap_backwards(gesture_received, rot) ==
    IF gesture_received # 0
    THEN IF rot # 0
         THEN directions[((index_of(gesture_received) - 1 + 4 - rot \div 90) % 4) + 1]
         ELSE gesture_received
    ELSE gesture_received

remap(gesture_received, rot) ==
    IF gesture_received # 0
    THEN IF rot # 0
         THEN directions[((index_of(gesture_received) - 1 + rot \div 90) % 4) + 1]
         ELSE gesture_received
    ELSE gesture_received

\* The 129-byte buffer is kept as [cmd, rec, filled]: byte 0, bytes 1..4,
\* and the number of bytes from index 1 on that hold FIFO data (every FIFO
\* read starts at index 1 and the device pads with FifoFiller, so the bytes
\* read so far are a prefix).  buffer_bytes gives the bytes themselves.
FifoFiller == 7
bytearray129 == [cmd |-> 0, rec |-> <<0, 0, 0, 0>>, filled |-> 0]
buffer_bytes(buffer) ==
    [i \in 1..129 |->
        IF i = 1 THEN buffer.cmd
        ELSE IF i <= 5 THEN buffer.rec[i - 1]
        ELSE IF i - 1 <= buffer.filled THEN FifoFiller ELSE 0]

\* The FIFO read without the min(129, ...) cap on in_end.
fifo_read_uncapped(buffer, n_recs, rec) ==
    LET in_end == 1 + n_recs * 4
    IN [buffer EXCEPT !.rec = rec,
                      !.filled = IF in_end - 1 > @ THEN in_end - 1 ELSE @]

\* lines 331-338: the FIFO read fills buffer[1 : min(129, 1 + n_recs*4)]
\* (Python indices) with the device's data; the rest of the buffer stays.
\* Called with n_recs >= 1, so at least buffer[1:5] is read.
fifo_read(buffer, n_recs, rec) ==
    LET in_end == Min(129, 1 + n_recs * 4)
    IN [buffer EXCEPT !.rec = rec,
                      !.filled = IF in_end - 1 > @ THEN in_end - 1 ELSE @]

\* --------------------------------------------------------------- __init__
RECURSIVE write_all(_, _)
write_all(m, ws) ==
    IF ws = <<>> THEN m
    ELSE write_all(write8(m, ws[1][1], ws[1][2]), Tail(ws))

\* The reset block without its first write: ENABLE keeps its old bits.
init_reset_no_disable(m) ==
    LET m1 == write_all(m, << <<APDS9960_ATIME, 255>>,
                              <<APDS9960_PIHT, 0>>,
                              <<APDS9960_PERS, 0>>,
                              <<APDS9960_CONTROL, 1>>,
                              <<APDS9960_GPENTH, 0>>,
                              <<APDS9960_GEXTH, 0>>,
                              <<APDS9960_GCONF1, 0>>,
                              <<APDS9960_GCONF2, 0>>,
                              <<APDS9960_GPULSE, 0>> >>)
    IN enable_set(clear_interrupt(m1), TRUE)

\* lines 185-204
init_reset(m) ==
    LET m1 == write_all(m, << <<APDS9960_ENABLE, 0>>,
                              <<APDS9960_ATIME, 255>>,
                              <<APDS9960_PIHT, 0>>,
                              <<APDS9960_PERS, 0>>,
                              <<APDS9960_CONTROL, 1>>,
                              <<APDS9960_GPENTH, 0>>,
                              <<APDS9960_GEXTH, 0>>,
                              <<APDS9960_GCONF1, 0>>,
                              <<APDS9960_GCONF2, 0>>,
                              <<APDS9960_GPULSE, 0>> >>)
    IN enable_set(clear_interrupt(m1), TRUE)

\* lines 206-214
init_defaults(m) ==
    write_all(proximity_interrupt_threshold_set(m, <<0, 5, 4>>),
              << <<APDS9960_GPENTH, 5>>,
                 <<APDS9960_GEXTH, 30>>,
                 <<APDS9960_GCONF1, 130>>,
                 <<APDS9960_GCONF2, 33>>,
                 <<APDS9960_GPULSE, 133>>,
                 <<APDS9960_ATIME, 182>>,
                 <<APDS9960_CONTROL, 1>> >>)

\* ------------------------------------------------------------ environment
\* Register contents the device may hold before the driver is constructed.
PowerOnImage == [r \in StoredRegs |-> IF r = APDS9960_ATIME THEN 255 ELSE 0]
UsedImage ==
    [r \in StoredRegs |->
        CASE r = APDS9960_ENABLE -> 102
          [] r = APDS9960_PILT -> 17
          [] r = APDS9960_PIHT -> 200
          [] r = APDS9960_PERS -> 58
          [] OTHER -> 9]
InitImages == {PowerOnImage, UsedImage}

IdBytes == {DEVICE_ID, 0}

\* Contents of the eight color data registers CDATAL .. BDATAH.
ColorImages ==
    { <<16, 0, 32, 1, 0, 0, 5, 0>>,
      <<0, 0, 0, 0, 0, 0, 0, 0>>,
      <<255, 255, 255, 255, 255, 255, 255, 255>>,
      <<1, 2, 3, 4, 5, 6, 7, 8>>,
      <<255, 0, 0, 255, 255, 0, 0, 255>>,
      <<0, 128, 255, 0, 171, 205, 52, 18>> }

ColorRegs(bytes) ==
    [r \in APDS9960_CDATAL .. APDS9960_CDATAL + 7 |->
        bytes[r - APDS9960_CDATAL + 1]]
RotationInputs == {0, 90, 180, 270, 45, 360}
GStatusBytes == {0, 1, 2}
FifoLevels == {0, 1, 33}
\* GFLVL is one byte: levels around the 32-record capacity of the buffer, and
\* the largest byte values.
FifoLevelsWide == {0, 1, 2, 31, 32, 33, 64, 255}
FifoRecords == { <<100, 50, 10, 10>>, <<50, 100, 10, 10>>, <<23, 10, 10, 23>> }
Records ==
    { <<100, 50, 10, 10>>, <<50, 100, 10, 10>>, <<10, 10, 100, 50>>,
      <<10, 10, 50, 100>>, <<100, 50, 100, 50>>, <<50, 100, 50, 100>>,
      <<23, 10, 10, 23>> }
ThresholdInputs ==
    {<<>>, <<2>>, <<2, 250>>, <<2, 250, 9>>, <<0, 5, 4>>, <<255, 0, 0>>}

\* The records a pass may find at FIFO level n: at level 0 none is read, and
\* one stand-in is enough.
PolledRecords(n) == IF n = 0 THEN {CHOOSE r \in Records : TRUE} ELSE Records

is_edge(rec) == noise_gate(rec[1], rec[2]) # 0 \/ noise_gate(rec[3], rec[4]) # 0

\* ------------------------------------------------------------------ state
VARIABLES
    pc,                 \* "new", "idle", "loop" (inside gesture()), "failed"
    regs,               \* the device's stored registers
    now,                \* time.monotonic(), ms
    rotation,           \* self._rotation
    saw,                \* self._saw_{up,down,left,right}_start
    buf2,               \* self.buf2
    buf129,             \* self.buf129, <<>> for None
    time_mark,          \* gesture(): time_mark
    gesture_received,   \* gesture(): gesture_received at the end of an iteration
    gesture_ret,        \* value gesture() returned (Unset while it runs)
    pit_ret,            \* value the last threshold read returned
    err,                \* exception raised by the last operation, or "none"
    op,                 \* the last operation that ran
    arg,                \* the inputs of the last step
    bus,                \* transactions issued by the last step
    slept,              \* ms slept by the last step
    boot,               \* time.monotonic() at construction
    call,               \* history of the current gesture() call
    flag_ret,           \* value the last read of an enable flag returned
    color_ret,          \* value the last read of color_data returned
    assigned,           \* per enable flag, the value last assigned (Unset: none)
    thr                 \* concurrent callers of _set_bit: where each one is

vars == <<pc, regs, now, rotation, saw, buf2, buf129, time_mark,
          gesture_received, gesture_ret, pit_ret, err, op, arg, bus, slept, boot,
          call, flag_ret, color_ret, assigned, thr>>

\* The state only the enable-flag, color and concurrent-caller steps touch.
aux == <<flag_ret, color_ret, assigned, thr>>

\* confirmed_at: when gesture-valid was read true; last_edge_at: when the
\* last record with an edge was polled (-1: none yet); first_rec: the first
\* record polled (<<>>: none yet); later_edge: a record after the first had
\* an edge.
\* History of one gesture() call: when gesture-valid was confirmed, when the
\* last edge was observed, the first record polled, whether a later iteration
\* observed an edge, the counters the call started with, and the signs of the
\* axis differences observed by the passes made so far while the loop runs.
NoCall == [confirmed_at |-> -1, last_edge_at |-> -1, first_rec |-> <<>>,
           later_edge |-> FALSE, entry |-> ZeroCounts, signs |-> {}]

\* The signs of the two gated differences of one pass.
signs_of(up_down_diff, left_right_diff) ==
    (IF up_down_diff > 0 THEN {"ud+"} ELSE {})
    \cup (IF up_down_diff < 0 THEN {"ud-"} ELSE {})
    \cup (IF left_right_diff > 0 THEN {"lr+"} ELSE {})
    \cup (IF left_right_diff < 0 THEN {"lr-"} ELSE {})

Init ==
    /\ pc = "new"
    /\ regs \in InitImages
    /\ now \in StartTimes
    /\ rotation = Unset
    /\ saw = [up |-> Unset, down |-> Unset, left |-> Unset, right |-> Unset]
    /\ buf2 = <<0, 0>>
    /\ buf129 = <<>>
    /\ time_mark = 0
    /\ gesture_received = 0
    /\ gesture_ret = Unset
    /\ pit_ret = <<>>
    /\ err = "none"
    /\ op = "none"
    /\ arg = <<>>
    /\ bus = <<>>
    /\ slept = 0
    /\ boot = now
    /\ call = NoCall
    /\ flag_ret = Unset
    /\ color_ret = <<>>
    /\ assigned = [f \in EnableFlags |-> Unset]
    /\ thr = <<>>

Stored(dev) == [r \in StoredRegs |-> dev[r]]

\* ---------------------------------------------------------------- actions
\* APDS9960(i2c, rotation=rot, reset=reset, set_defaults=set_defaults) on a
\* device that answers the ID read with id.
\* A constructor that compares the ID only after the reset and default blocks
\* have run.
Construct_checks_id_late(rot, reset, set_defaults, id) ==
    /\ pc = "new"
    /\ op' = "init"
    /\ UNCHANGED aux
    /\ arg' = <<rot, reset, set_defaults, id>>
    /\ UNCHANGED <<buf129, time_mark, gesture_received, gesture_ret, pit_ret,
                   boot, call>>
    /\ IF ~rotation_ok(rot)
       THEN /\ err' = "ValueError"
            /\ pc' = "failed"
            /\ bus' = <<>>
            /\ slept' = 0
            /\ UNCHANGED <<regs, now, rotation, saw, buf2>>
       ELSE LET m1 == read8(NewBus(regs @@ (APDS9960_ID :> id), <<0, 0>>),
                            APDS9960_ID)
                m2 == IF reset THEN init_reset(m1) ELSE m1
                m3 == IF set_defaults THEN init_defaults(m2) ELSE m2
            IN /\ err' = IF m1.val # DEVICE_ID THEN "RuntimeError" ELSE "none"
               /\ pc' = IF m1.val # DEVICE_ID THEN "failed" ELSE "idle"
               /\ bus' = m3.bus
               /\ buf2' = m3.buf2
               /\ regs' = Stored(m3.dev)
               /\ rotation' = rot
               /\ slept' = IF reset THEN 10 ELSE 0
               /\ now' = now + slept'
               /\ saw' = reset_counts(saw)

Construct(rot, reset, set_defaults, id) ==
    /\ pc = "new"
    /\ op' = "init"
    /\ UNCHANGED aux
    /\ arg' = <<rot, reset, set_defaults, id>>
    /\ UNCHANGED <<buf129, time_mark, gesture_received, gesture_ret, pit_ret,
                   boot, call>>
    /\ IF ~rotation_ok(rot)
       THEN /\ err' = "ValueError"
            /\ pc' = "failed"
            /\ bus' = <<>>
            /\ slept' = 0
            /\ UNCHANGED <<regs, now, rotation, saw, buf2>>
       ELSE LET m1 == read8(NewBus(regs @@ (APDS9960_ID :> id), <<0, 0>>),
                            APDS9960_ID)
            IN IF m1.val # DEVICE_ID
               THEN /\ err' = "RuntimeError"
                    /\ pc' = "failed"
                    /\ bus' = m1.bus
                    /\ buf2' = m1.buf2
                    /\ rotation' = rot
                    /\ slept' = 0
                    /\ UNCHANGED <<regs, now, saw>>
               ELSE LET m2 == IF reset THEN init_reset(m1) ELSE m1
                        m3 == IF set_defaults THEN init_defaults(m2) ELSE m2
                    IN /\ err' = "none"
                       /\ pc' = "idle"
                       /\ bus' = m3.bus
                       /\ buf2' = m3.buf2
                       /\ regs' = Stored(m3.dev)
                       /\ rotation' = rot
                       /\ slept' = IF reset THEN 10 ELSE 0
                       /\ now' = now + slept'
                       /\ saw' = reset_counts(saw)

\* apds.rotation = new_rotation
SetRotation(new_rotation) ==
    /\ pc = "idle"
    /\ op' = "set_rotation"
    /\ UNCHANGED aux
    /\ arg' = new_rotation
    /\ bus' = <<>>
    /\ slept' = 0
    /\ IF rotation_ok(new_rotation)
       THEN rotation' = new_rotation /\ err' = "none"
       ELSE rotation' = rotation /\ err' = "ValueError"
    /\ UNCHANGED <<pc, regs, now, saw, buf2, buf129, time_mark,
                   gesture_received, gesture_ret, pit_ret, boot, call>>

\* apds.proximity_interrupt_threshold = setting_tuple
SetThreshold(setting_tuple) ==
    /\ pc = "idle"
    /\ op' = "set_threshold"
    /\ UNCHANGED aux
    /\ arg' = setting_tuple
    /\ LET m == proximity_interrupt_threshold_set(NewBus(regs, buf2), setting_tuple)
       IN /\ regs' = Stored(m.dev)
          /\ buf2' = m.buf2
          /\ bus' = m.bus
    /\ slept' = 0
    /\ err' = "none"
    /\ UNCHANGED <<pc, now, rotation, saw, buf129, time_mark,
                   gesture_received, gesture_ret, pit_ret, boot, call>>

\* apds.proximity_interrupt_threshold
GetThreshold ==
    /\ pc = "idle"
    /\ op' = "get_threshold"
    /\ UNCHANGED aux
    /\ arg' = <<>>
    /\ LET m == proximity_interrupt_threshold_get(NewBus(regs, buf2))
       IN /\ pit_ret' = m.val
          /\ buf2' = m.buf2
          /\ bus' = m.bus
    /\ slept' = 0
    /\ err' = "none"
    /\ UNCHANGED <<pc, regs, now, rotation, saw, buf129, time_mark,
                   gesture_received, gesture_ret, boot, call>>

\* apds.<flag> = value, for the five boolean properties of ENABLE
SetFlag(flag, value) ==
    /\ pc = "idle"
    /\ op' = "set_flag"
    /\ arg' = <<flag, value>>
    /\ LET m == flag_set(NewBus(regs, buf2), flag, value)
       IN /\ regs' = Stored(m.dev)
          /\ buf2' = m.buf2
          /\ bus' = m.bus
    /\ assigned' = [assigned EXCEPT ![flag] = IF value THEN 1 ELSE 0]
    /\ slept' = 0
    /\ err' = "none"
    /\ UNCHANGED <<pc, now, rotation, saw, buf129, time_mark, gesture_received,
                   gesture_ret, pit_ret, boot, call, flag_ret, color_ret, thr>>

\* apds.<flag>, for the five boolean properties of ENABLE
GetFlag(flag) ==
    /\ pc = "idle"
    /\ op' = "get_flag"
    /\ arg' = <<flag>>
    /\ LET m == flag_get(NewBus(regs, buf2), flag)
       IN /\ flag_ret' = m.val
          /\ buf2' = m.buf2
          /\ bus' = m.bus
    /\ slept' = 0
    /\ err' = "none"
    /\ UNCHANGED <<pc, regs, now, rotation, saw, buf129, time_mark,
                   gesture_received, gesture_ret, pit_ret, boot, call,
                   color_ret, assigned, thr>>

\* apds.color_data, the device holding bytes in its color data registers
ColorData(bytes) ==
    /\ pc = "idle"
    /\ op' = "color_data"
    /\ arg' = bytes
    /\ LET m == color_data(NewBus(regs @@ ColorRegs(bytes), buf2))
       IN /\ color_ret' = m.val
          /\ buf2' = m.buf2
          /\ bus' = m.bus
    /\ slept' = 0
    /\ err' = "none"
    /\ UNCHANGED <<pc, regs, now, rotation, saw, buf129, time_mark,
                   gesture_received, gesture_ret, pit_ret, boot, call,
                   flag_ret, assigned, thr>>

\* ---- _set_bit run by two callers at once (lines 477-487)
\* Each caller binds buf to the one shared self.buf2 and runs: buf[0] =
\* register; the read transaction; the load and the store of
\* buf[1] |= bitmask (or &= ~bitmask); the write transaction.  A `with
\* self.i2c_device` block holds the bus lock from entry to exit, so each
\* transaction is one step; the callers' steps interleave freely.
Callers == {1, 2}

IdleCaller == [pc |-> "none", mask |-> 0, value |-> FALSE, tmp |-> 0,
               alone |-> TRUE]

caller(t) == IF thr = <<>> THEN IdleCaller ELSE thr[t]

callers_with(t, c) == [u \in Callers |-> IF u = t THEN c ELSE caller(u)]

\* lines 481-484 with the mask stored in place of the merged byte
set_bit_merge_overwrites(byte, bitmask, value) ==
    IF value THEN bitmask ELSE 0

\* lines 481-484: buf[1] |= bitmask, or buf[1] &= ~bitmask
set_bit_merge(byte, bitmask, value) ==
    IF value THEN BitOr(byte, bitmask) ELSE BitClear(byte, bitmask)

\* lines 478-479
SetBitBegin(t, flag, value) ==
    /\ pc = "idle"
    /\ caller(t).pc = "none"
    /\ op' = "set_bit"
    /\ arg' = <<t, "begin">>
    /\ buf2' = <<APDS9960_ENABLE, buf2[2]>>
    /\ bus' = <<>>
    /\ thr' = callers_with(t, [pc |-> "read", mask |-> flag, value |-> value,
                               tmp |-> 0,
                               alone |-> \A u \in Callers \ {t} :
                                            caller(u).pc \in {"none", "done"}])
    /\ slept' = 0
    /\ err' = "none"
    /\ UNCHANGED <<pc, regs, now, rotation, saw, buf129, time_mark,
                   gesture_received, gesture_ret, pit_ret, boot, call,
                   flag_ret, color_ret, assigned>>

\* lines 480-481: the register named by buf[0] is read into buf[1]
SetBitRead(t) ==
    /\ pc = "idle"
    /\ caller(t).pc = "read"
    /\ op' = "set_bit"
    /\ arg' = <<t, "read">>
    /\ buf2' = <<buf2[1], regs[buf2[1]]>>
    /\ bus' = <<Tx("read", buf2[1], 1)>>
    /\ thr' = callers_with(t, [caller(t) EXCEPT !.pc = "load"])
    /\ slept' = 0
    /\ err' = "none"
    /\ UNCHANGED <<pc, regs, now, rotation, saw, buf129, time_mark,
                   gesture_received, gesture_ret, pit_ret, boot, call,
                   flag_ret, color_ret, assigned>>

\* lines 482-485: the in-place update loads buf[1] ...
SetBitLoad(t) ==
    /\ pc = "idle"
    /\ caller(t).pc = "load"
    /\ op' = "set_bit"
    /\ arg' = <<t, "load">>
    /\ bus' = <<>>
    /\ thr' = callers_with(t, [caller(t) EXCEPT !.pc = "store",
                                                !.tmp = buf2[2]])
    /\ slept' = 0
    /\ err' = "none"
    /\ UNCHANGED <<pc, regs, now, rotation, saw, buf2, buf129, time_mark,
                   gesture_received, gesture_ret, pit_ret, boot, call,
                   flag_ret, color_ret, assigned>>

\* ... and stores the merged byte back
SetBitStore(t) ==
    /\ pc = "idle"
    /\ caller(t).pc = "store"
    /\ op' = "set_bit"
    /\ arg' = <<t, "store">>
    /\ buf2' = <<buf2[1], set_bit_merge(caller(t).tmp, caller(t).mask,
                                        caller(t).value)>>
    /\ bus' = <<>>
    /\ thr' = callers_with(t, [caller(t) EXCEPT !.pc = "write", !.tmp = 0])
    /\ slept' = 0
    /\ err' = "none"
    /\ UNCHANGED <<pc, regs, now, rotation, saw, buf129, time_mark,
                   gesture_received, gesture_ret, pit_ret, boot, call,
                   flag_ret, color_ret, assigned>>

\* lines 486-487: both bytes of the scratch are written
SetBitWrite(t) ==
    /\ pc = "idle"
    /\ caller(t).pc = "write"
    /\ op' = "set_bit"
    /\ arg' = <<t, "write">>
    /\ regs' = [regs EXCEPT ![buf2[1]] = buf2[2]]
    /\ bus' = <<Tx("write", buf2[1], 2)>>
    /\ thr' = callers_with(t, [caller(t) EXCEPT !.pc = "done"])
    /\ slept' = 0
    /\ err' = "none"
    /\ UNCHANGED <<pc, now, rotation, saw, buf2, buf129, time_mark,
                   gesture_received, gesture_ret, pit_ret, boot, call,
                   flag_ret, color_ret, assigned>>

\* gesture(), lines 310-320: up to the first pass through the loop head
GestureCall(gstatus) ==
    /\ pc = "idle"
    /\ BitAnd(gstatus, BIT_MASK_GSTATUS_GVALID) # 0 => now - boot < Horizon
    /\ op' = "gesture"
    /\ UNCHANGED aux
    /\ arg' = gstatus
    /\ LET buffer == IF buf129 = <<>> THEN bytearray129 ELSE buf129
           m == gesture_valid(NewBus(regs @@ (APDS9960_GSTATUS :> gstatus), buf2))
       IN /\ buf129' = [buffer EXCEPT !.cmd = APDS9960_GFIFO_U]
          /\ buf2' = m.buf2
          /\ bus' = m.bus
          /\ IF m.val = 0
             THEN /\ gesture_ret' = 0
                  /\ pc' = "idle"
                  /\ call' = NoCall
                  /\ UNCHANGED <<time_mark, gesture_received>>
             ELSE /\ pc' = "loop"
                  /\ time_mark' = 0
                  /\ gesture_received' = 0
                  /\ call' = [NoCall EXCEPT !.confirmed_at = now,
                                            !.entry = saw]
                  /\ gesture_ret' = Unset
    /\ slept' = 0
    /\ err' = "none"
    /\ UNCHANGED <<regs, now, rotation, saw, pit_ret, boot>>

\* gesture(), lines 321-394: one pass through the loop body, and the return
\* when the pass ends the loop
GestureIter(n_recs, rec) ==
    /\ pc = "loop"
    /\ (n_recs # 0 /\ is_edge(rec)) =>
          /\ now - boot < Horizon
          /\ \A f \in DOMAIN saw : classify(saw, rec).c[f] <= MaxCount
    /\ op' = "poll"
    /\ UNCHANGED aux
    /\ arg' = IF n_recs # 0 THEN rec ELSE <<>>
    /\ slept' = 30
    /\ now' = now + 30
    /\ LET m == read8(NewBus(regs @@ (APDS9960_GFLVL :> n_recs), buf2),
                      APDS9960_GFLVL)
           buffer == IF m.val # 0 THEN fifo_read(buf129, m.val, rec)
                                  ELSE buf129
           k == IF m.val # 0
                THEN classify(saw, buffer.rec)
                ELSE [c |-> saw, g |-> 0, ud |-> 0, lr |-> 0]
           edge == k.ud # 0 \/ k.lr # 0
           mark == IF edge THEN now' ELSE time_mark
           done == finished(k.g, now', mark)
       IN /\ buf2' = m.buf2
          /\ buf129' = buffer
          /\ bus' = IF m.val # 0
                    THEN Append(m.bus, Tx("read", buffer.cmd, Min(129, 1 + m.val * 4) - 1))
                    ELSE m.bus
          /\ time_mark' = mark
          /\ gesture_received' = k.g
          /\ saw' = IF done THEN reset_counts(k.c) ELSE k.c
          /\ pc' = IF done THEN "idle" ELSE "loop"
          /\ gesture_ret' = IF done THEN remap(k.g, rotation) ELSE gesture_ret
          /\ call' = [call EXCEPT
                        !.last_edge_at = IF edge THEN now' ELSE @,
                        !.first_rec = IF @ = <<>> /\ m.val # 0 THEN rec ELSE @,
                        !.later_edge = @ \/ (call.first_rec # <<>> /\ edge),
                        !.signs = IF done THEN {}
                                  ELSE @ \cup signs_of(k.ud, k.lr)]
    /\ err' = "none"
    /\ UNCHANGED <<regs, rotation, pit_ret, boot>>

\* gesture(), lines 326-338: a pass through the loop body in which a transport
\* call raises.  stage "level" is the _read8 of GFLVL, stage "fifo" the FIFO
\* read after a level n_recs was read.  The exception leaves gesture() from
\* inside the loop: nothing is returned and line 385 is not reached.  Bytes a
\* failed FIFO read may have stored in buf129 are read by nobody before the
\* next successful FIFO read replaces them, so buf129 is kept as it was.
GestureFail(stage, n_recs) ==
    /\ pc = "loop"
    /\ op' = "poll_failed"
    /\ UNCHANGED aux
    /\ arg' = <<stage>>
    /\ slept' = 30
    /\ now' = now + 30
    /\ IF stage = "level"
       THEN /\ buf2' = <<APDS9960_GFLVL, buf2[2]>>
            /\ bus' = <<Tx("read", APDS9960_GFLVL, 1)>>
       ELSE LET m == read8(NewBus(regs @@ (APDS9960_GFLVL :> n_recs), buf2),
                           APDS9960_GFLVL)
            IN /\ buf2' = m.buf2
               /\ bus' = Append(m.bus,
                                Tx("read", buf129.cmd,
                                   Min(129, 1 + m.val * 4) - 1))
    /\ gesture_received' = 0
    /\ pc' = "idle"
    /\ err' = "OSError"
    /\ UNCHANGED <<regs, rotation, saw, buf129, time_mark, gesture_ret, pit_ret,
                   boot, call>>

\* The gesture engine, on a driver constructed with the default arguments
\* reset=True, set_defaults=True.
Next ==
    \/ \E rot \in RotationInputs, id \in IdBytes : Construct(rot, TRUE, TRUE, id)
    \/ \E gs \in GStatusBytes : GestureCall(gs)
    \/ \E n \in FifoLevels : \E rec \in PolledRecords(n) : GestureIter(n, rec)

Spec == Init /\ [][Next]_vars

\* The gesture engine over a transport that can fail inside the polling loop.
NextFault ==
    \/ Construct(0, TRUE, TRUE, DEVICE_ID)
    \/ \E gs \in GStatusBytes : GestureCall(gs)
    \/ \E n \in FifoLevels : \E rec \in PolledRecords(n) : GestureIter(n, rec)
    \/ \E stage \in {"level", "fifo"}, n \in FifoLevels \ {0} :
          GestureFail(stage, n)

SpecFault == Init /\ [][NextFault]_vars

\* The FIFO read over the range of fill levels, on a driver constructed late
\* enough that a pass without an edge ends the call.
InitFifo == Init /\ now = 1000

NextFifo ==
    \/ Construct(0, TRUE, TRUE, DEVICE_ID)
    \/ \E gs \in GStatusBytes : GestureCall(gs)
    \/ \E n \in FifoLevelsWide, rec \in FifoRecords : GestureIter(n, rec)

SpecFifo == InitFifo /\ [][NextFifo]_vars

\* Calls in which no pass observes an edge: the FIFO is empty or holds records
\* whose differences stay within the noise gate.  The loop is a blocking loop
\* of one thread over a transport that answers, so a pass that can be made is
\* eventually made.
QuietRecords == { r \in Records : ~is_edge(r) }

QuietIter == \E n \in FifoLevels, rec \in QuietRecords : GestureIter(n, rec)

NextQuiet ==
    \/ \E rot \in RotationInputs, id \in IdBytes : Construct(rot, TRUE, TRUE, id)
    \/ \E gs \in GStatusBytes : GestureCall(gs)
    \/ QuietIter

SpecQuiet == Init /\ [][NextQuiet]_vars /\ WF_vars(QuietIter)

\* Two callers, each assigning one enable flag once, their steps interleaved.
NextRace ==
    \/ \E b \in BOOLEAN : Construct(0, b, b, DEVICE_ID)
    \/ \E t \in Callers, f \in EnableFlags, v \in BOOLEAN : SetBitBegin(t, f, v)
    \/ \E t \in Callers : SetBitRead(t)
    \/ \E t \in Callers : SetBitLoad(t)
    \/ \E t \in Callers : SetBitStore(t)
    \/ \E t \in Callers : SetBitWrite(t)

SpecRace == Init /\ [][NextRace]_vars

\* The configuration layer, under every choice of constructor arguments.
NextConfig ==
    \/ \E rot \in RotationInputs, reset \in BOOLEAN, set_defaults \in BOOLEAN,
          id \in IdBytes : Construct(rot, reset, set_defaults, id)
    \/ \E r \in RotationInputs : SetRotation(r)
    \/ \E t \in ThresholdInputs : SetThreshold(t)
    \/ GetThreshold

SpecConfig == Init /\ [][NextConfig]_vars

\* The enable flags, on a driver constructed over either register image, with
\* and without the reset and default blocks.
NextAccess ==
    \/ \E b \in BOOLEAN : Construct(0, b, b, DEVICE_ID)
    \/ \E f \in EnableFlags, v \in BOOLEAN : SetFlag(f, v)
    \/ \E f \in EnableFlags : GetFlag(f)

SpecAccess == Init /\ [][NextAccess]_vars

\* The color read, repeated over changing sensor data.
NextColor ==
    \/ \E rot \in RotationInputs, b \in BOOLEAN, id \in IdBytes :
          Construct(rot, b, b, id)
    \/ \E bytes \in ColorImages : ColorData(bytes)

SpecColor == Init /\ [][NextColor]_vars

\* ================================================================= claims
AllZero(c) == c.up = 0 /\ c.down = 0 /\ c.left = 0 /\ c.right = 0

\* gesture() has returned: at once (gesture-valid false) or from the loop
Returned == pc = "idle" /\ op \in {"gesture", "poll"}
\* gesture() has returned from its polling loop
LoopReturned == pc = "idle" /\ op = "poll"
\* the step is one pass of the polling loop that polled a record
PolledRecord == pc = "loop" /\ op' = "poll" /\ arg' # <<>>

\* C1 as stated: the four accumulation counters are all zero whenever the driver is
\* between gesture() calls: at the entry of every call (after construction
\* or after an earlier call) and at every return, whether the call returned
\* at once, classified a gesture or timed out.
C1_CountersZeroBetweenCalls == pc = "idle" => AllZero(saw)

\* C1 witness: a call that had recorded an edge has timed out and returned.
C1_Witness ==
    LoopReturned /\ call.last_edge_at >= 0 /\ gesture_ret = 0 /\ AllZero(saw)

C2Record == <<100, 50, 10, 10>>
\* the call's first polled record was (100,50,10,10) and no later record of
\* the call produced an edge
C2Scenario ==
    LoopReturned /\ rotation = 0 /\ call.first_rec = C2Record /\ ~call.later_edge

\* C2 as stated: gesture-valid true, first polled record (100,50,10,10), no
\* further edge until the timeout, rotation 0: gesture() returns Up (1).
C2_Original == C2Scenario => gesture_ret = 1

\* C2 amended: in that scenario gesture() never returns Up.  It returns None
\* (0) when the call started with saw_down_start = 0: the record is a leading
\* edge (up > down), which is only counted in saw_up_start.  When the call
\* started with a down edge left behind by an aborted call, the record is
\* taken for its trailing edge and gesture() returns Down (2).
C2_ReturnsNone ==
    C2Scenario => /\ gesture_ret # 1
                  /\ call.entry.down = 0 => gesture_ret = 0
                  /\ call.entry.down # 0 => gesture_ret = 2

\* C2 witness: the scenario has run to its return.
C2_Witness ==
    /\ C2Scenario
    /\ AllZero(call.entry)
    /\ gesture_ret = 0
    /\ now - call.last_edge_at > 300

\* C3 as stated: in a loop iteration whose record gives up_down_diff < 0
\* while saw_up_start > 0 the raw result is Up and the loop stops, and with
\* up_down_diff > 0 while saw_down_start > 0 it is Down, whatever the
\* left/right samples of the record are.
C3_Original ==
    [][PolledRecord =>
        /\ (noise_gate(arg'[1], arg'[2]) < 0 /\ saw.up > 0)
              => (pc' = "idle" /\ gesture_received' = 1)
        /\ (noise_gate(arg'[1], arg'[2]) > 0 /\ saw.down > 0)
              => (pc' = "idle" /\ gesture_received' = 2)]_vars

\* C4 as stated: a call that returns None without having recorded any edge
\* returns more than 300 ms after gesture-valid was confirmed.
C4_Original ==
    (LoopReturned /\ call.last_edge_at < 0 /\ gesture_ret = 0)
        => now - call.confirmed_at > 300

\* C5 as stated: the loop exits exactly when the iteration classified a
\* gesture or more than 300 ms have passed since the last iteration that
\* observed an edge.
C5_Original ==
    [][(pc = "loop" /\ op' = "poll") =>
        (pc' = "idle" <=>
            \/ gesture_received' # 0
            \/ (call'.last_edge_at >= 0 /\ now' - call'.last_edge_at > 300))]_vars

\* C6: when the gesture-valid bit of the status byte is clear, gesture()
\* returns 0 after exactly one bus transaction, the read of GSTATUS: no
\* FIFO-level read, no FIFO read, no sleep; the counters, the rotation and
\* the device's registers are as before.
C6_InvalidReturnsAtOnce ==
    [][(pc = "idle" /\ op' = "gesture" /\ arg' % 2 = 0) =>
        /\ pc' = "idle"
        /\ gesture_ret' = 0
        /\ bus' = <<[op |-> "read", reg |-> APDS9960_GSTATUS, n |-> 1]>>
        /\ slept' = 0
        /\ now' = now
        /\ saw' = saw
        /\ rotation' = rotation
        /\ regs' = regs]_vars

\* C6 witness: gesture() returned 0 on a status byte that is non-zero but
\* has the gesture-valid bit clear.
C6_Witness ==
    pc = "idle" /\ op = "gesture" /\ arg = 2 /\ gesture_ret = 0 /\ Len(bus) = 1

\* One quarter turn in the cyclic order Up(1), Right(4), Down(2), Left(3).
Turn90 == (1 :> 4) @@ (4 :> 2) @@ (2 :> 3) @@ (3 :> 1)
RECURSIVE Turned(_, _)
Turned(g, quarters) == IF quarters = 0 THEN g ELSE Turned(Turn90[g], quarters - 1)

\* C7: the value gesture() returns from its loop is the raw direction
\* turned rotation/90 quarter turns in the cyclic order Up, Right, Down,
\* Left (so rotation 0 is the identity and 90 maps Up to Right); a raw 0 is
\* returned as 0; for each rotation the mapping is a bijection on
\* {1,2,3,4}; every returned value is in 0..4.
C7_RotationRemap ==
    /\ Returned => gesture_ret \in 0..4
    /\ LoopReturned =>
          gesture_ret = IF gesture_received = 0 THEN 0
                        ELSE Turned(gesture_received, rotation \div 90)
    /\ \A r \in {0, 90, 180, 270} :
          /\ {remap(g, r) : g \in 1..4} = 1..4
          /\ remap(0, r) = 0
    /\ \A g \in 1..4 : remap(g, 0) = g

\* C7 witness: a raw Up was returned as Right under rotation 90.
C7_Witness ==
    LoopReturned /\ rotation = 90 /\ gesture_received = 1 /\ gesture_ret = 4

\* C8 as stated: reading the proximity interrupt threshold returns (low,
\* high, persistence) as the registers hold them, the persistence being
\* bits 7..4 of PERS.
C8_Original ==
    op = "get_threshold" =>
        pit_ret = <<regs[APDS9960_PILT], regs[APDS9960_PIHT],
                    regs[APDS9960_PERS] \div 16>>

\* C9: the threshold setter writes element 0, if present, to PILT and
\* element 1, if present, to PIHT, and leaves the register of an absent
\* element as it was; it always writes the persistence field (bits 7..4 of
\* PERS): element 2 clamped to at most 7 if present, else 4; the low four
\* bits of PERS and every other register stay as they were.
C9_ThresholdSetter ==
    [][op' = "set_threshold" =>
        /\ regs'[APDS9960_PILT] =
              IF Len(arg') > 0 THEN arg'[1] ELSE regs[APDS9960_PILT]
        /\ regs'[APDS9960_PIHT] =
              IF Len(arg') > 1 THEN arg'[2] ELSE regs[APDS9960_PIHT]
        /\ regs'[APDS9960_PERS] \div 16 =
              IF Len(arg') > 2 THEN (IF arg'[3] > 7 THEN 7 ELSE arg'[3]) ELSE 4
        /\ regs'[APDS9960_PERS] % 16 = regs[APDS9960_PERS] % 16
        /\ \A r \in StoredRegs \ {APDS9960_PILT, APDS9960_PIHT, APDS9960_PERS} :
              regs'[r] = regs[r]]_vars

\* C9 witness: (2,250,9) was set on a device whose PERS held non-zero low
\* bits: low 2, high 250, persistence 7, low bits kept.
C9_Witness ==
    /\ op = "set_threshold" /\ arg = <<2, 250, 9>>
    /\ regs[APDS9960_PILT] = 2 /\ regs[APDS9960_PIHT] = 250
    /\ regs[APDS9960_PERS] = 7 * 16 + 10

\* C10: assigning a rotation outside {0,90,180,270} raises ValueError and
\* leaves the stored rotation and all other driver and device state as it
\* was; assigning one of the four stores it; a constructed driver's
\* rotation is always one of the four; the constructor rejects a bad
\* rotation before it issues any bus transaction.
C10_RotationValidated ==
    [][/\ op' = "set_rotation" =>
             IF arg' \in {0, 90, 180, 270}
             THEN rotation' = arg' /\ err' = "none"
             ELSE /\ err' = "ValueError"
                  /\ UNCHANGED <<rotation, regs, saw, buf2, buf129, pc, now>>
                  /\ bus' = <<>>
       /\ pc' \in {"idle", "loop"} => rotation' \in {0, 90, 180, 270}
       /\ (op' = "init" /\ arg'[1] \notin {0, 90, 180, 270}) =>
             /\ err' = "ValueError" /\ pc' = "failed"
             /\ bus' = <<>> /\ regs' = regs
       /\ (op' = "init" /\ pc' = "idle") => rotation' = arg'[1]]_vars

\* C10 witness: a rotation of 45 was refused and the stored 270 kept.
C10_Witness ==
    op = "set_rotation" /\ arg = 45 /\ err = "ValueError" /\ rotation = 270

\* C11: construction reads the ID register before anything else; when the byte
\* read is not 0xAB it fails with RuntimeError after that single read, without
\* a write or command and with the registers as they were, whatever reset and
\* set_defaults are.
C11_IdCheckedFirst ==
    [][ (op' = "init" /\ arg'[1] \in ValidRotations) =>
           /\ Len(bus') >= 1
           /\ bus'[1] = Tx("read", APDS9960_ID, 1)
           /\ arg'[4] # DEVICE_ID =>
                  /\ err' = "RuntimeError"
                  /\ pc' = "failed"
                  /\ Len(bus') = 1
                  /\ regs' = regs ]_vars

C11_Witness ==
    /\ op = "init"
    /\ arg = <<0, TRUE, TRUE, 0>>
    /\ err = "RuntimeError"
    /\ bus = <<Tx("read", APDS9960_ID, 1)>>

\* The transactions of the reset block, in order.
ResetBus ==
    << Tx("write", APDS9960_ENABLE, 2), Tx("write", APDS9960_ATIME, 2),
       Tx("write", APDS9960_PIHT, 2), Tx("write", APDS9960_PERS, 2),
       Tx("write", APDS9960_CONTROL, 2), Tx("write", APDS9960_GPENTH, 2),
       Tx("write", APDS9960_GEXTH, 2), Tx("write", APDS9960_GCONF1, 2),
       Tx("write", APDS9960_GCONF2, 2), Tx("write", APDS9960_GPULSE, 2),
       Tx("write", APDS9960_AICLEAR, 1),
       Tx("read", APDS9960_ENABLE, 1), Tx("write", APDS9960_ENABLE, 2) >>

\* C12: a construction with reset issues, after the ID read, the write to ENABLE
\* first, then the baseline writes, the clear-interrupt command and the
\* read-modify-write that sets EN, and sleeps 10 ms.  With reset alone ENABLE
\* ends as exactly EN over the baseline; with set_defaults too, from any prior
\* register contents, ENABLE is exactly EN, the proximity thresholds are 0 and
\* 5, the persistence field is 4 and the four counters are zero.
C12_ResetSequence ==
    [][ (op' = "init" /\ err' = "none" /\ arg'[2]) =>
           /\ Len(bus') >= 1 + Len(ResetBus)
           /\ SubSeq(bus', 2, 1 + Len(ResetBus)) = ResetBus
           /\ slept' = 10
           /\ now' = now + 10
           /\ regs'[APDS9960_ENABLE] = BIT_MASK_ENABLE_EN
           /\ ~arg'[3] =>
                  /\ Len(bus') = 1 + Len(ResetBus)
                  /\ regs'[APDS9960_PILT] = regs[APDS9960_PILT]
                  /\ regs'[APDS9960_ATIME] = 255
                  /\ regs'[APDS9960_CONTROL] = 1
                  /\ \A r \in { APDS9960_PIHT, APDS9960_PERS, APDS9960_GPENTH,
                                 APDS9960_GEXTH, APDS9960_GCONF1,
                                 APDS9960_GCONF2, APDS9960_GPULSE } :
                         regs'[r] = 0
           /\ arg'[3] =>
                  /\ regs'[APDS9960_PILT] = 0
                  /\ regs'[APDS9960_PIHT] = 5
                  /\ ShiftRight(BitAnd(regs'[APDS9960_PERS],
                                       BIT_MASK_PERS_PPERS),
                                BIT_POSITON_PERS_PPERS) = 4
                  /\ AllZero(saw') ]_vars

C12_Witness ==
    /\ op = "init"
    /\ err = "none"
    /\ arg[2] /\ arg[3]
    /\ slept = 10
    /\ regs[APDS9960_ENABLE] = BIT_MASK_ENABLE_EN
    /\ regs[APDS9960_PIHT] = 5
    /\ regs[APDS9960_PERS] = 64
    /\ AllZero(saw)

\* Bit k of a byte, by division.
BitOf(v, k) == (v \div Pow2(k)) % 2

\* The bit number of a one-bit mask.
BitNo(mask) == CHOOSE k \in 0 .. 7 : Pow2(k) = mask

\* C13: assigning one of the five enable flags is one read then one write of
\* ENABLE; it sets that flag's bit to the value and leaves every other bit of
\* ENABLE and every other register as it was.  Reading a flag is one read, it
\* changes no register and returns the value last assigned.  So every flag that
\* was assigned holds the value last assigned to it.
C13_FlagSetters ==
    [][ /\ op' = "set_flag" =>
              /\ bus' = << Tx("read", APDS9960_ENABLE, 1),
                           Tx("write", APDS9960_ENABLE, 2) >>
              /\ \A k \in 0 .. 7 :
                     BitOf(regs'[APDS9960_ENABLE], k) =
                        IF k = BitNo(arg'[1])
                        THEN (IF arg'[2] THEN 1 ELSE 0)
                        ELSE BitOf(regs[APDS9960_ENABLE], k)
              /\ \A r \in StoredRegs \ {APDS9960_ENABLE} : regs'[r] = regs[r]
        /\ op' = "get_flag" =>
              /\ bus' = << Tx("read", APDS9960_ENABLE, 1) >>
              /\ regs' = regs
              /\ flag_ret' = BitOf(regs[APDS9960_ENABLE], BitNo(arg'[1]))
              /\ assigned[arg'[1]] # Unset => flag_ret' = assigned[arg'[1]]
        /\ \A f \in EnableFlags :
              assigned'[f] # Unset =>
                 BitOf(regs'[APDS9960_ENABLE], BitNo(f)) = assigned'[f] ]_vars

\* Every flag was assigned, the last read returned FALSE for a flag that was
\* set and later cleared while the other four are set.
C13_Witness ==
    /\ op = "get_flag"
    /\ arg = <<BIT_MASK_ENABLE_PROX>>
    /\ flag_ret = 0
    /\ assigned = [f \in EnableFlags |->
                      IF f = BIT_MASK_ENABLE_PROX THEN 0 ELSE 1]
    /\ regs[APDS9960_ENABLE] = 99

\* C14: color_data returns (red, green, blue, clear), each the low byte plus
\* 256 times the high byte of its register pair (clear at CDATAL, red, green
\* and blue at +2, +4, +6), so every component is in 0 .. 65535; raw bytes
\* clear (0x10, 0x00), red (0x20, 0x01), green (0, 0), blue (5, 0) give
\* (0x0120, 0, 5, 0x0010).
C14_ColorData ==
    op = "color_data" =>
        /\ color_ret = << arg[3] + 256 * arg[4], arg[5] + 256 * arg[6],
                          arg[7] + 256 * arg[8], arg[1] + 256 * arg[2] >>
        /\ \A i \in 1 .. 4 : color_ret[i] \in 0 .. 65535
        /\ arg = <<16, 0, 32, 1, 0, 0, 5, 0>> => color_ret = <<288, 0, 5, 16>>

C14_Witness ==
    /\ op = "color_data"
    /\ arg = <<16, 0, 32, 1, 0, 0, 5, 0>>
    /\ color_ret = <<288, 0, 5, 16>>

\* C15 as stated: when a transport call fails inside the polling loop the
\* attempt is aborted with the failure propagated (nothing is classified or
\* returned, nothing is retried) and it leaves no accumulation behind: the
\* driver is idle with all four counters zero, so the next gesture() call
\* starts from zero.
C15_Original ==
    op = "poll_failed" =>
        /\ pc = "idle"
        /\ err = "OSError"
        /\ gesture_ret = Unset
        /\ AllZero(saw)

\* The sign an earlier pass must have observed for a raw direction, and the
\* sign of the pass that classifies it.
EarlierSign(g) ==
    CASE g = 1 -> "ud+" [] g = 2 -> "ud-" [] g = 3 -> "lr+" [] g = 4 -> "lr-"

ClassifyingSign(g) ==
    CASE g = 1 -> "ud-" [] g = 2 -> "ud+" [] g = 3 -> "lr-" [] g = 4 -> "lr+"

\* C16 as stated: a pass of the loop classifies a direction only from a polled
\* record whose gated difference has the classifying sign, after an earlier
\* pass of the same call observed the opposite sign on that axis (Up: up > down
\* then down > up; Down the reverse; Left: left > right then right > left;
\* Right the reverse).  Neither a single record nor an edge remembered from an
\* earlier call produces a direction.
C16_Original ==
    [][ (pc = "loop" /\ op' = "poll" /\ gesture_received' # 0) =>
           /\ arg' # <<>>
           /\ ClassifyingSign(gesture_received') \in
                 signs_of(noise_gate(arg'[1], arg'[2]),
                          noise_gate(arg'[3], arg'[4]))
           /\ EarlierSign(gesture_received') \in call.signs ]_vars

\* min(128, 4n), by cases.
FifoBytes(n) == IF 4 * n <= 128 THEN 4 * n ELSE 128

\* C17: a pass that reads FIFO level n in 1 .. 255 follows it with one FIFO
\* read of exactly min(128, 4n) bytes, at least 4 and never past position 128
\* of the 129-byte buffer; the record classified is bytes 1..4 of the buffer as
\* just read.  A pass that reads level 0 makes no FIFO read, leaves the buffer
\* as it was, classifies nothing and changes no counter (other than the reset
\* when the pass ends the call).
C17_FifoRead ==
    [][ (pc = "loop" /\ op' = "poll") =>
           LET n == buf2'[1]
           IN /\ n = 0 =>
                    /\ bus' = << Tx("read", APDS9960_GFLVL, 1) >>
                    /\ arg' = <<>>
                    /\ buf129' = buf129
                    /\ gesture_received' = 0
                    /\ saw' = saw \/ (pc' = "idle" /\ AllZero(saw'))
              /\ n # 0 =>
                    /\ n \in 1 .. 255
                    /\ bus' = << Tx("read", APDS9960_GFLVL, 1),
                                 Tx("read", APDS9960_GFIFO_U, FifoBytes(n)) >>
                    /\ FifoBytes(n) >= 4
                    /\ buf129'.filled >= FifoBytes(n)
                    /\ buf129'.filled <= 128
                    /\ DOMAIN buffer_bytes(buf129') = 1 .. 129
                    /\ SubSeq(buffer_bytes(buf129'), 2, 5) = arg' ]_vars

\* A pass read level 255 and transferred 128 bytes.
C17_Witness ==
    /\ op = "poll"
    /\ buf2[1] = 255
    /\ Len(bus) = 2
    /\ bus[2].n = 128
    /\ buf129.filled = 128
    /\ buf129.rec = arg

\* C18: a gesture() call that entered the loop and in which no pass observes
\* an edge terminates and returns None: while it is in the loop after a pass
\* the clock has not passed 300 ms, and the call eventually returns 0.
C18_QuietCallReturns ==
    /\ [](pc = "loop" => (now = call.confirmed_at \/ now <= 300))
    /\ (pc = "loop") ~> (LoopReturned /\ err = "none" /\ gesture_ret = 0)

\* A call that made ten passes without an edge has returned None.
C18_Witness ==
    /\ LoopReturned
    /\ gesture_ret = 0
    /\ call.last_edge_at < 0
    /\ now - call.confirmed_at >= 300

\* C19: on a constructed driver the four counters are never negative, at most
\* one of saw_up_start and saw_down_start is non-zero and at most one of
\* saw_left_start and saw_right_start.  A pass that does not end the loop
\* lowers no counter; a pass that ends it resets all four.  A pass that
\* observes an edge without classifying re-arms the timer at the current
\* time, does not end the loop, and raises by one the counter of each edge it
\* observed, leaving the others; this holds at every counter value, so passes
\* of that kind keep the loop running for as long as they go on.
C19_Counters ==
    [][ /\ pc' \in {"idle", "loop"} =>
              /\ \A f \in DOMAIN saw' : saw'[f] >= 0
              /\ ~(saw'.up > 0 /\ saw'.down > 0)
              /\ ~(saw'.left > 0 /\ saw'.right > 0)
        /\ (pc = "loop" /\ op' = "poll" /\ pc' = "loop") =>
              \A f \in DOMAIN saw : saw'[f] >= saw[f]
        /\ (pc = "loop" /\ op' = "poll" /\ pc' = "idle") => AllZero(saw')
        /\ (PolledRecord /\ is_edge(arg') /\ gesture_received' = 0) =>
              LET ud == noise_gate(arg'[1], arg'[2])
                  lr == noise_gate(arg'[3], arg'[4])
              IN /\ pc' = "loop"
                 /\ time_mark' = now'
                 /\ saw'.up = saw.up + (IF ud > 0 THEN 1 ELSE 0)
                 /\ saw'.down = saw.down + (IF ud < 0 THEN 1 ELSE 0)
                 /\ saw'.left = saw.left + (IF lr > 0 THEN 1 ELSE 0)
                 /\ saw'.right = saw.right + (IF lr < 0 THEN 1 ELSE 0) ]_vars

\* Two passes in a row observed the same edge: the counter stands at 2, the
\* timer was re-armed and the loop is still running.
C19_Witness ==
    /\ pc = "loop"
    /\ op = "poll"
    /\ saw.up = 2
    /\ saw.down = 0
    /\ time_mark = now
    /\ call.last_edge_at = now

\* Caller t's flag stands in ENABLE as t asked.
Applied(t, dev) ==
    BitOf(dev[APDS9960_ENABLE], BitNo(thr[t].mask)) =
        (IF thr[t].value THEN 1 ELSE 0)

BothDone(callers) ==
    /\ callers # <<>>
    /\ \A t \in Callers : callers[t].pc = "done"
    /\ callers[1].mask # callers[2].mask

\* C20: every transaction of a caller is a single exclusive step, one read and
\* one write of ENABLE per caller, and no step changes another register or a
\* bit of ENABLE that neither caller asked for.  Callers that do not overlap
\* both get their flag; overlapping callers of different flags are only sure
\* that at least one of the two flags stands as asked: the other caller's
\* update can be lost.
C20_SetBitRace ==
    [][ op' = "set_bit" =>
           /\ \A r \in StoredRegs \ {APDS9960_ENABLE} : regs'[r] = regs[r]
           /\ \A k \in 0 .. 7 :
                  (\A t \in Callers : thr'[t].pc = "none" \/
                                       k # BitNo(thr'[t].mask))
                     => BitOf(regs'[APDS9960_ENABLE], k) =
                           BitOf(regs[APDS9960_ENABLE], k)
           /\ arg'[2] = "read" => bus' = <<Tx("read", APDS9960_ENABLE, 1)>>
           /\ arg'[2] = "write" => bus' = <<Tx("write", APDS9960_ENABLE, 2)>>
           /\ arg'[2] \notin {"read", "write"} => (bus' = <<>> /\ regs' = regs)
           /\ BothDone(thr') =>
                  /\ \E t \in Callers : Applied(t, regs)'
                  /\ (\A t \in Callers : thr'[t].alone) =>
                         \A t \in Callers : Applied(t, regs)' ]_vars

\* Both callers have finished and the flag of caller 1 is not as it asked:
\* its update was lost.
C20_Witness ==
    /\ BothDone(thr)
    /\ thr[1].value /\ thr[2].value
    /\ ~Applied(1, regs)
    /\ Applied(2, regs)

====
